---------------------------- MODULE Spec2Model ----------------------------
(***************************************************************************)
(* FleetImporter (src/FleetImporter/FleetImporter.py): an AutoPkg          *)
(* processor that probes the Fleet server version, checks whether the      *)
(* declared title/version is already in the catalog and, if not, uploads   *)
(* the package.                                                            *)
(*                                                                         *)
(* Python strings are sequences of one-character strings; JSON values are  *)
(* tagged records [t |-> tag, v |-> payload]; a Python exception is the    *)
(* name of its class.                                                      *)
(***************************************************************************)
EXTENDS Integers, Sequences, FiniteSets, TLC

VARIABLES
    pc,               \* position of main: the next segment to run
    cfg,              \* self.env inputs of the run
    calls,            \* network requests issued so far, in order
    probe_resp,       \* outcome of the version probe GET
    titles_resp,      \* outcome of the catalog search GET
    upload_resp,      \* outcome of the upload POST
    fleet_version,    \* main's local fleet_version
    gate_ok,          \* result of _is_fleet_minimum_supported
    existing_package, \* main's local existing_package
    matching_title,   \* _check_existing_package's local: index of the matched title, 0 if none
    upload_info,      \* main's local upload_info
    env,              \* self.env output variables
    hashed,           \* whether _calculate_file_sha256 has run
    err               \* the exception that ended the run, if any

vars == << pc, cfg, calls, probe_resp, titles_resp, upload_resp, fleet_version,
           gate_ok, existing_package, matching_title, upload_info, env, hashed, err >>

-----------------------------------------------------------------------------
(* Python strings *)

Digits == {"0", "1", "2", "3", "4", "5", "6", "7", "8", "9"}

DigitVal(c) ==
    CASE c = "0" -> 0 [] c = "1" -> 1 [] c = "2" -> 2 [] c = "3" -> 3
      [] c = "4" -> 4 [] c = "5" -> 5 [] c = "6" -> 6 [] c = "7" -> 7
      [] c = "8" -> 8 [] c = "9" -> 9

\* str.split(sep) for a one-character separator: always at least one part.
RECURSIVE Split(_, _)
Split(s, sep) ==
    IF s = << >> THEN << << >> >>
    ELSE IF Head(s) = sep THEN << << >> >> \o Split(Tail(s), sep)
    ELSE LET r == Split(Tail(s), sep)
         IN  << << Head(s) >> \o Head(r) >> \o Tail(r)

\* int(s) over the alphabet of digits, letters, "." : ValueError unless s is
\* a non-empty run of digits.
IntOk(s) == s # << >> /\ \A i \in 1..Len(s) : s[i] \in Digits

RECURSIVE IntVal(_)
IntVal(s) ==
    IF s = << >> THEN 0
    ELSE IntVal(SubSeq(s, 1, Len(s) - 1)) * 10 + DigitVal(s[Len(s)])

LowerChar(c) ==
    CASE c = "A" -> "a" [] c = "B" -> "b" [] OTHER -> c

\* str.lower()
Lower(s) == [i \in 1..Len(s) |-> LowerChar(s[i])]

\* a in b (substring test)
Contains(a, b) ==
    \E i \in 0..(Len(b) - Len(a)) : SubSeq(b, i + 1, i + Len(a)) = a

IsSpace(c) == c = " "

\* str.strip()
RECURSIVE LStrip(_)
LStrip(s) == IF s # << >> /\ IsSpace(Head(s)) THEN LStrip(Tail(s)) ELSE s

RECURSIVE RStrip(_)
RStrip(s) ==
    IF s # << >> /\ IsSpace(s[Len(s)]) THEN RStrip(SubSeq(s, 1, Len(s) - 1)) ELSE s

Strip(s) == RStrip(LStrip(s))

-----------------------------------------------------------------------------
(* Fleet version constants *)

FLEET_MINIMUM_VERSION == << "4", ".", "7", "4", ".", "0" >>

-----------------------------------------------------------------------------
(* _is_fleet_minimum_supported *)

\* the comparison with the minor version compared without regard to the
\* major version: a lower major version with a higher minor would pass
VersionAtLeast_MinorAlone(major, minor, patch, min_major, min_minor, min_patch) ==
    IF major > min_major THEN TRUE
    ELSE IF minor > min_minor THEN TRUE
    ELSE IF major = min_major /\ minor = min_minor /\ patch >= min_patch THEN TRUE
    ELSE FALSE

\* the comparison of the parsed triple with the parsed minimum
VersionAtLeast(major, minor, patch, min_major, min_minor, min_patch) ==
    IF major > min_major THEN TRUE
    ELSE IF major = min_major /\ minor > min_minor THEN TRUE
    ELSE IF major = min_major /\ minor = min_minor /\ patch >= min_patch THEN TRUE
    ELSE FALSE

\* ValueError from int(), IndexError from version_parts[1]: both caught, TRUE
is_fleet_minimum_supported(version) ==
    LET version_parts == Split(Split(version, "-")[1], ".")
        min_parts     == Split(FLEET_MINIMUM_VERSION, ".")
    IN  IF ~IntOk(version_parts[1]) THEN TRUE
        ELSE IF Len(version_parts) < 2 THEN TRUE
        ELSE IF ~IntOk(version_parts[2]) THEN TRUE
        ELSE IF Len(version_parts) > 2 /\ ~IntOk(version_parts[3]) THEN TRUE
        ELSE LET major == IntVal(version_parts[1])
                 minor == IntVal(version_parts[2])
                 patch == IF Len(version_parts) > 2 THEN IntVal(version_parts[3]) ELSE 0
                 min_major == IntVal(min_parts[1])
                 min_minor == IntVal(min_parts[2])
                 min_patch == IF Len(min_parts) > 2 THEN IntVal(min_parts[3]) ELSE 0
             IN  VersionAtLeast(major, minor, patch, min_major, min_minor, min_patch)

-----------------------------------------------------------------------------
(* JSON values as json.loads returns them, and Python's operations on them *)

None == [t |-> "null"]
JBool(b) == [t |-> "bool", v |-> b]
JNum(n) == [t |-> "num", v |-> n]
JStr(s) == [t |-> "str", v |-> s]
JList(l) == [t |-> "list", v |-> l]
JObj(f) == [t |-> "obj", v |-> f]
EmptyStr == JStr(<< >>)
EmptyList == JList(<< >>)
EmptyObj == JObj(<< >>)

\* bool(x)
Truthy(j) ==
    CASE j.t = "null" -> FALSE
      [] j.t = "bool" -> j.v
      [] j.t = "num"  -> j.v # 0
      [] j.t = "str"  -> Len(j.v) > 0
      [] j.t = "list" -> Len(j.v) > 0
      [] j.t = "obj"  -> DOMAIN j.v # {}

\* dict.get(key, default)
Get(j, key, default) == IF key \in DOMAIN j.v THEN j.v[key] ELSE default

\* x == s for a Python str s: False for a value of any other type
StrEq(j, s) == j.t = "str" /\ j.v = s

\* whether len(x) is defined (TypeError otherwise)
HasLen(j) == j.t \in {"str", "list", "obj"}

\* the elements a for loop visits: the items of a list, the characters of a
\* str (a dict, which yields its keys, is not among the modelled responses)
Elements(j) ==
    CASE j.t = "list" -> j.v
      [] j.t = "str"  -> [i \in 1..Len(j.v) |-> JStr(<< j.v[i] >>)]

\* the result of a call: the exception it raised, or "none" and its value
Ret(val) == [exc |-> "none", val |-> val]
Raise(exc) == [exc |-> exc, val |-> None]

-----------------------------------------------------------------------------
(* HTTP: what urllib.request.urlopen and resp.read() can produce *)

\* response bodies: no bytes, bytes that are not JSON text, JSON text, bytes
\* that are not UTF-8, and a body whose read() times out
BodyEmpty == [b |-> "empty"]
BodyText(s) == [b |-> "text", s |-> s]
BodyJson(j) == [b |-> "json", j |-> j]
BodyBinary == [b |-> "binary"]
BodyTimeout == [b |-> "timeout"]

\* urlopen returns a response for a 2xx status, raises HTTPError for any
\* other status and URLError when no response arrives
Response(code, body) == [k |-> "resp", code |-> code, body |-> body]
HTTPError(code, body) == [k |-> "HTTPError", code |-> code, body |-> body]
URLError == [k |-> "URLError", code |-> 0, body |-> BodyEmpty]
NoResponse == [k |-> "none", code |-> 0, body |-> BodyEmpty]

\* json.loads(resp.read().decode())
json_loads(body) ==
    CASE body.b = "timeout" -> Raise("TimeoutError")
      [] body.b = "binary"  -> Raise("UnicodeDecodeError")
      [] body.b = "empty"   -> Raise("JSONDecodeError")
      [] body.b = "text"    -> Raise("JSONDecodeError")
      [] body.b = "json"    -> Ret(body.j)

\* the exceptions the two GET helpers catch
Caught == {"HTTPError", "URLError", "JSONDecodeError", "KeyError"}

-----------------------------------------------------------------------------
(* _get_fleet_version *)

\* the body of the try block; falls off the end with None
get_fleet_version_try(resp) ==
    IF resp.k # "resp" THEN Raise(resp.k)
    ELSE IF resp.code # 200 THEN Ret(None)
    ELSE LET data == json_loads(resp.body)
         IN  IF data.exc # "none" THEN data
             ELSE IF data.val.t # "obj" THEN Raise("AttributeError")
             ELSE LET version == Get(data.val, "version", EmptyStr)
                  IN  IF ~Truthy(version) THEN Ret(None)
                      ELSE IF version.t # "str" THEN Raise("AttributeError")
                      ELSE Ret(JStr(Split(version.v, "-")[1]))

get_fleet_version(resp) ==
    LET r == get_fleet_version_try(resp)
    IN  IF r.exc \in Caught THEN Ret(JStr(FLEET_MINIMUM_VERSION))
        ELSE IF r.exc # "none" THEN r
        ELSE IF r.val = None THEN Ret(JStr(FLEET_MINIMUM_VERSION))
        ELSE r

-----------------------------------------------------------------------------
(* _check_existing_package *)

\* a step of a search over a list: the exception raised, or the index of
\* the element found (0: none)
Found(i) == [exc |-> "none", idx |-> i]
Threw(exc) == [exc |-> exc, idx |-> 0]

\* the first loop over software_titles: one pass, an element is taken when
\* its name equals the declared title or, failing that, equals it in lower
\* case
RECURSIVE NameLoop(_, _, _)
NameLoop(titles, i, software_title) ==
    IF i > Len(titles) THEN Found(0)
    ELSE IF titles[i].t # "obj" THEN Threw("AttributeError")
    ELSE LET title_name == Get(titles[i], "name", EmptyStr)
         IN  IF StrEq(title_name, software_title) THEN Found(i)
             ELSE IF title_name.t # "str" THEN Threw("AttributeError")
             ELSE IF Lower(title_name.v) = Lower(software_title) THEN Found(i)
             ELSE NameLoop(titles, i + 1, software_title)

\* the test of the second loop in one direction only: the declared title
\* inside the candidate's name
FuzzyHit_OneWay(search_lower, title_lower) ==
    Contains(search_lower, title_lower)

\* the test of the second loop
FuzzyHit(search_lower, title_lower) ==
    Contains(search_lower, title_lower) \/ Contains(title_lower, search_lower)

\* the second loop over software_titles
RECURSIVE FuzzyLoop(_, _, _)
FuzzyLoop(titles, i, software_title) ==
    IF i > Len(titles) THEN Found(0)
    ELSE IF titles[i].t # "obj" THEN Threw("AttributeError")
    ELSE LET title_name == Get(titles[i], "name", EmptyStr)
         IN  IF title_name.t # "str" THEN Threw("AttributeError")
             ELSE IF FuzzyHit(Lower(software_title), Lower(title_name.v)) THEN Found(i)
             ELSE FuzzyLoop(titles, i + 1, software_title)

\* the choice of matching_title: the index into software_titles, 0 for None
MatchTitle(titles, software_title) ==
    LET first == NameLoop(titles, 1, software_title)
    IN  IF first.exc # "none" THEN first
        ELSE IF ~(first.idx # 0 /\ Truthy(titles[first.idx])) /\ Len(titles) > 0
             THEN FuzzyLoop(titles, 1, software_title)
        ELSE first

\* the f-string that logs the hash: hash_sha256[:16] + '...' if hash_sha256
HashLogOk(hash_sha256) == ~Truthy(hash_sha256) \/ hash_sha256.t = "str"

\* the loop over versions leaving at the first entry that is neither dict nor
\* str (break for continue)
RECURSIVE VersionLoop_StopsAtOtherShape(_, _, _)
VersionLoop_StopsAtOtherShape(versions, i, version) ==
    IF i > Len(versions) THEN 0
    ELSE LET ver == versions[i]
         IN  IF ver.t = "obj" /\ StrEq(Get(ver, "version", EmptyStr), version) THEN i
             ELSE IF ver.t = "str" /\ ver.v = version THEN i
             ELSE IF ver.t \notin {"obj", "str"} THEN 0
             ELSE VersionLoop_StopsAtOtherShape(versions, i + 1, version)

\* the loop over versions: the index of the first entry whose version string
\* equals the declared version; entries that are neither dict nor str are
\* skipped
RECURSIVE VersionLoop(_, _, _)
VersionLoop(versions, i, version) ==
    IF i > Len(versions) THEN 0
    ELSE LET ver == versions[i]
         IN  IF ver.t = "obj" /\ StrEq(Get(ver, "version", EmptyStr), version) THEN i
             ELSE IF ver.t = "str" /\ ver.v = version THEN i
             ELSE VersionLoop(versions, i + 1, version)

\* the dict returned for a hit
ExistingPackage(version, hash_sha256, package_name) ==
    JObj([version |-> version, hash_sha256 |-> hash_sha256, package_name |-> package_name])

\* the check of matching_title["software_package"]
CurrentPackage(title, software_title, version) ==
    LET sw_package == Get(title, "software_package", None)
    IN  IF ~Truthy(sw_package) THEN Ret(None)
        ELSE IF sw_package.t # "obj" THEN Raise("AttributeError")
        ELSE LET pkg_version == Get(sw_package, "version", EmptyStr)
                 hash_sha256 == Get(title, "hash_sha256", None)
             IN  IF ~StrEq(pkg_version, version) THEN Ret(None)
                 ELSE IF ~HashLogOk(hash_sha256) THEN Raise("TypeError")
                 ELSE Ret(ExistingPackage(pkg_version, hash_sha256,
                                          Get(sw_package, "name", JStr(software_title))))

\* the versions array of the matched title, then its software_package
VersionPresent(title, software_title, version) ==
    LET versions == Get(title, "versions", EmptyList)
        hash_sha256 == Get(title, "hash_sha256", None)
    IN  IF Truthy(versions) /\ ~HasLen(versions) THEN Raise("TypeError")
        ELSE LET hit == IF Truthy(versions)
                        THEN VersionLoop(Elements(versions), 1, version) ELSE 0
             IN  IF hit = 0 THEN CurrentPackage(title, software_title, version)
                 ELSE IF ~HashLogOk(hash_sha256) THEN Raise("TypeError")
                 ELSE Ret(ExistingPackage(JStr(version), hash_sha256, JStr(software_title)))

\* the body of the try block, with the local matching_title at its end
check_existing_package_try(resp, software_title, version) ==
    LET Out(r, idx) == [exc |-> r.exc, val |-> r.val, matching_title |-> idx]
    IN  IF resp.k # "resp" THEN Out(Raise(resp.k), 0)
        ELSE IF resp.code # 200 THEN Out(Ret(None), 0)
        ELSE LET data == json_loads(resp.body)
             IN  IF data.exc # "none" THEN Out(data, 0)
                 ELSE IF data.val.t # "obj" THEN Out(Raise("AttributeError"), 0)
                 ELSE LET software_titles == Get(data.val, "software_titles", EmptyList)
                      IN  IF ~HasLen(software_titles) THEN Out(Raise("TypeError"), 0)
                          ELSE LET titles == Elements(software_titles)
                                   m == MatchTitle(titles, software_title)
                               IN  IF m.exc # "none" THEN Out(Raise(m.exc), 0)
                                   ELSE IF m.idx = 0 THEN Out(Ret(None), 0)
                                   ELSE IF ~Truthy(titles[m.idx]) THEN Out(Ret(None), m.idx)
                                   ELSE Out(VersionPresent(titles[m.idx], software_title,
                                                           version), m.idx)

check_existing_package(resp, software_title, version) ==
    LET r == check_existing_package_try(resp, software_title, version)
    IN  IF r.exc \in Caught THEN [r EXCEPT !.exc = "none", !.val = None] ELSE r

-----------------------------------------------------------------------------
(* _fleet_upload_package *)

\* the ProcessorError messages, with the values their f-strings interpolate
ProcessorError(text, a, b) == [type |-> "ProcessorError", text |-> text, a |-> a, b |-> b]
Uncaught(exc) == [type |-> exc, text |-> "", a |-> None, b |-> None]
NoError == [type |-> "none", text |-> "", a |-> None, b |-> None]

\* the label rule, checked before the request is built
LabelsConflict(labels_include_any, labels_exclude_any) ==
    Len(labels_include_any) > 0 /\ Len(labels_exclude_any) > 0

\* e.code == 409
IsConflict(code) == code = 409

\* any 2xx status taken for success
IsFailureStatus_Not2xx(status) == status < 200 \/ status > 299

\* status != 200
IsFailureStatus(status) == status # 200

\* json.loads(resp_body or b"{}")
upload_json(body) == IF body.b = "empty" THEN Ret(EmptyObj) ELSE json_loads(body)

\* the request and the reading of its response: the value returned, or the
\* error raised
fleet_upload_package(resp) ==
    IF resp.k = "URLError" THEN [exc |-> Uncaught("URLError"), val |-> None]
    ELSE IF resp.k = "HTTPError" THEN
        IF IsConflict(resp.code)
        THEN [exc |-> NoError, val |-> JObj([package_exists |-> JBool(TRUE)])]
        ELSE IF resp.body.b \in {"timeout", "binary"}
        THEN [exc |-> Uncaught(json_loads(resp.body).exc), val |-> None]
        ELSE [exc |-> ProcessorError("Fleet upload failed", JNum(resp.code), resp.body),
              val |-> None]
    ELSE IF resp.body.b = "timeout" THEN [exc |-> Uncaught("TimeoutError"), val |-> None]
    ELSE IF IsFailureStatus(resp.code) THEN
        IF resp.body.b = "binary"
        THEN [exc |-> Uncaught("UnicodeDecodeError"), val |-> None]
        ELSE [exc |-> ProcessorError("Fleet upload failed", JNum(resp.code), resp.body),
              val |-> None]
    ELSE LET r == upload_json(resp.body)
         IN  [exc |-> IF r.exc = "none" THEN NoError ELSE Uncaught(r.exc), val |-> r.val]

-----------------------------------------------------------------------------
(* _calculate_file_sha256: SHA-256 as a collision-free map from the modelled
   file contents to lowercase hexadecimal strings *)

calculate_file_sha256(pkg_bytes) ==
    CASE pkg_bytes = "pkg-1" -> << "a", "1" >>
      [] pkg_bytes = "pkg-2" -> << "b", "2" >>

-----------------------------------------------------------------------------
(* main *)

GET_VERSION == "GET /api/v1/fleet/version"
GET_TITLES  == "GET /api/v1/fleet/software/titles"
POST_PACKAGE == "POST /api/v1/fleet/software/package"

Unset == [t |-> "unset"]

\* main's locals software_title and version
software_title == Strip(cfg.software_title)
version == Strip(cfg.version)

\* the run ends with an exception
Fail(e) == /\ pc' = "failed"
           /\ err' = e

\* the early return taken only for a hit that carries a hash
AlreadyExists_NeedsHash(existing) ==
    Truthy(existing) /\ Truthy(Get(existing, "hash_sha256", None))

\* if existing_package:
AlreadyExists(existing) == Truthy(existing)

\* the early return reporting the hash the catalog returned for the title
SkipOutputs_RemoteHash(pkg_bytes) ==
    [fleet_title_id |-> None, fleet_installer_id |-> None,
     hash_sha256 |-> Get(existing_package', "hash_sha256", None)]

\* the output variables written when the existence check reports a hit
SkipOutputs(pkg_bytes) ==
    [fleet_title_id |-> None, fleet_installer_id |-> None,
     hash_sha256 |-> JStr(calculate_file_sha256(pkg_bytes))]

\* the 409 branch writing a null hash as well
ConflictOutputs_WritesHash(e) ==
    [e EXCEPT !.fleet_title_id = None, !.fleet_installer_id = None, !.hash_sha256 = None]

\* the output variables written on 409: the hash is left alone
ConflictOutputs(e) ==
    [e EXCEPT !.fleet_title_id = None, !.fleet_installer_id = None]

\* the output variables written after an upload
UploadOutputs(e, software_package) ==
    LET title_id == Get(software_package, "title_id", None)
        installer_id == Get(software_package, "installer_id", None)
        hash_sha256 == Get(software_package, "hash_sha256", None)
    IN  [fleet_title_id |-> title_id, fleet_installer_id |-> installer_id,
         hash_sha256 |-> IF Truthy(hash_sha256) THEN hash_sha256 ELSE e.hash_sha256]

\* whether main takes upload_info for "no data returned"
NoData(info) == ~Truthy(info)

\* main from the return of _fleet_upload_package to its end: the error
\* raised and the output variables
ReportUpload(info, e) ==
    IF NoData(info)
    THEN [exc |-> ProcessorError("Fleet package upload failed; no data returned", None, None),
          env |-> e]
    ELSE IF info.t # "obj" THEN [exc |-> Uncaught("AttributeError"), env |-> e]
    ELSE IF Truthy(Get(info, "package_exists", None))
    THEN [exc |-> NoError, env |-> ConflictOutputs(e)]
    ELSE LET software_package == Get(info, "software_package", EmptyObj)
         IN  IF software_package.t # "obj"
             THEN [exc |-> Uncaught("AttributeError"), env |-> e]
             ELSE [exc |-> NoError, env |-> UploadOutputs(e, software_package)]

-----------------------------------------------------------------------------
(* The inputs of a run of main, and what the server may answer *)

RawTitles == { << " ", "A" >> }
RawVersions == { << "2", " " >> }
LabelLists == { << >>, << "workstations" >> }
PkgContents == { "pkg-1", "pkg-2" }

Configs ==
    [ pkg_is_file : BOOLEAN, software_title : RawTitles, version : RawVersions,
      labels_include_any : LabelLists, labels_exclude_any : LabelLists,
      pkg_bytes : PkgContents ]

VersionBody(v) == BodyJson(JObj([version |-> v]))

ProbeResponses ==
    { URLError,
      HTTPError(500, BodyText("server error")),
      Response(204, BodyEmpty),
      Response(200, BodyTimeout),
      Response(200, BodyText("<html>")),
      Response(200, BodyJson(EmptyList)),
      Response(200, BodyJson(EmptyObj)),
      Response(200, VersionBody(EmptyStr)),
      Response(200, VersionBody(JNum(5))),
      Response(200, VersionBody(JStr(<< "4", ".", "7", "4", ".", "0" >>))),
      Response(200, VersionBody(JStr(<< "4", ".", "7", "3", ".", "9" >>))),
      Response(200, VersionBody(JStr(<< "4", ".", "7", "5", "-", "d" >>))),
      Response(200, VersionBody(JStr(<< "d", "e", "v" >>))) }

V1 == JStr(<< "1" >>)
V2 == JStr(<< "2" >>)
HashA == JStr(<< "a", "1" >>)
HashC == JStr(<< "c", "3" >>)
NameA == JStr(<< "A" >>)
NameLowerA == JStr(<< "a" >>)
NameAB == JStr(<< "A", "B" >>)
NameB == JStr(<< "B" >>)

TitlesBody(titles) == BodyJson(JObj([software_titles |-> titles]))

\* catalog entries: well-formed ones and the malformed shapes
Catalogs ==
    { EmptyList,
      None,
      JList(<< NameA >>),
      JList(<< JObj([name |-> None, id |-> JNum(1)]) >>),
      JList(<< JObj([name |-> NameB, id |-> JNum(1), versions |-> JList(<< V2 >>)]) >>),
      JList(<< JObj([name |-> NameA, id |-> JNum(1), versions |-> JList(<< V1, V2 >>),
                     hash_sha256 |-> HashA]) >>),
      JList(<< JObj([name |-> NameA, id |-> JNum(1),
                     versions |-> JList(<< None, JObj([version |-> V2]) >>),
                     hash_sha256 |-> HashC]) >>),
      JList(<< JObj([name |-> NameA, id |-> JNum(1), versions |-> JList(<< V1 >>),
                     software_package |-> JObj([name |-> NameAB, version |-> V2]),
                     hash_sha256 |-> HashC]) >>),
      JList(<< JObj([name |-> NameA, id |-> JNum(1), versions |-> JList(<< V1 >>),
                     software_package |-> None]) >>),
      JList(<< JObj([name |-> NameA, id |-> JNum(1),
                     software_package |-> NameAB]) >>),
      JList(<< JObj([name |-> NameLowerA, id |-> JNum(1), versions |-> JList(<< V1 >>)]),
               JObj([name |-> NameA, id |-> JNum(2), versions |-> JList(<< V2 >>),
                     hash_sha256 |-> HashA]) >>),
      JList(<< JObj([name |-> NameAB, id |-> JNum(1), versions |-> JList(<< V2 >>),
                     hash_sha256 |-> HashC]) >>),
      JList(<< JObj([id |-> JNum(1), versions |-> JList(<< V2 >>)]) >>) }

TitlesResponses ==
    { URLError,
      HTTPError(404, BodyText("not found")),
      Response(204, BodyEmpty),
      Response(200, BodyTimeout),
      Response(200, BodyText("<html>")),
      Response(200, BodyJson(EmptyList)),
      Response(200, BodyJson(EmptyObj)) }
    \cup { Response(200, TitlesBody(c)) : c \in Catalogs }

UploadedPackage(hash) ==
    JObj([software_package |->
            JObj([title_id |-> JNum(7), installer_id |-> JNum(9), hash_sha256 |-> hash])])

UploadResponses ==
    { URLError,
      HTTPError(409, BodyText("conflict")),
      HTTPError(500, BodyText("server error")),
      HTTPError(400, BodyEmpty),
      HTTPError(502, BodyBinary),
      Response(201, BodyJson(UploadedPackage(HashA))),
      Response(204, BodyEmpty),
      Response(200, BodyTimeout),
      Response(200, BodyEmpty),
      Response(200, BodyText("<html>")),
      Response(200, BodyJson(EmptyObj)),
      Response(200, BodyJson(EmptyList)),
      Response(200, BodyJson(UploadedPackage(HashA))),
      Response(200, BodyJson(UploadedPackage(None))),
      Response(200, BodyJson(JObj([software_package |-> EmptyObj]))),
      Response(200, BodyJson(JObj([software_package |-> None]))),
      Response(200, BodyJson(JObj([title_id |-> JNum(7)]))) }

-----------------------------------------------------------------------------
(* main as a state machine: one action per segment between network calls *)

\* the state before main has run: no call issued, no output written
Idle(c, v, catalog) ==
    /\ cfg = c
    /\ calls = << >>
    /\ probe_resp = NoResponse
    /\ titles_resp = catalog
    /\ upload_resp = NoResponse
    /\ fleet_version = v
    /\ gate_ok = FALSE
    /\ existing_package = None
    /\ matching_title = 0
    /\ upload_info = None
    /\ env = [fleet_title_id |-> Unset, fleet_installer_id |-> Unset, hash_sha256 |-> Unset]
    /\ hashed = FALSE
    /\ err = NoError

Init ==
    /\ pc = "validate"
    /\ \E c \in Configs : Idle(c, << >>, NoResponse)

\* lines 128-151: the inputs are read; a pkg_path that is no file ends the run
ValidateInputs ==
    /\ pc = "validate"
    /\ IF ~cfg.pkg_is_file
       THEN Fail(ProcessorError("pkg_path not found", None, None))
       ELSE pc' = "probe" /\ err' = err
    /\ UNCHANGED << cfg, calls, probe_resp, titles_resp, upload_resp, fleet_version,
                    gate_ok, existing_package, matching_title, upload_info, env, hashed >>

\* lines 153-164: the version probe and the minimum-version gate
ProbeVersion ==
    /\ pc = "probe"
    /\ \E resp \in ProbeResponses :
        LET r == get_fleet_version(resp)
        IN  /\ calls' = Append(calls, GET_VERSION)
            /\ probe_resp' = resp
            /\ IF r.exc # "none"
               THEN /\ Fail(Uncaught(r.exc))
                    /\ UNCHANGED << fleet_version, gate_ok >>
               ELSE /\ fleet_version' = r.val.v
                    /\ gate_ok' = is_fleet_minimum_supported(r.val.v)
                    /\ IF gate_ok'
                       THEN pc' = "check" /\ err' = err
                       ELSE Fail(ProcessorError("Fleet version is not supported",
                                                r.val, JStr(FLEET_MINIMUM_VERSION)))
    /\ UNCHANGED << cfg, titles_resp, upload_resp, existing_package, matching_title,
                    upload_info, env, hashed >>

\* lines 166-187: the existence check and, on a hit, the early return
CheckExisting ==
    /\ pc = "check"
    /\ \E resp \in TitlesResponses :
        LET r == check_existing_package(resp, software_title, version)
        IN  /\ calls' = Append(calls, GET_TITLES)
            /\ titles_resp' = resp
            /\ matching_title' = r.matching_title
            /\ IF r.exc # "none"
               THEN /\ Fail(Uncaught(r.exc))
                    /\ UNCHANGED << existing_package, env, hashed >>
               ELSE /\ existing_package' = r.val
                    /\ err' = err
                    /\ IF AlreadyExists(r.val)
                       THEN /\ hashed' = TRUE
                            /\ env' = SkipOutputs(cfg.pkg_bytes)
                            /\ pc' = "done"
                       ELSE /\ pc' = "upload"
                            /\ UNCHANGED << env, hashed >>
    /\ UNCHANGED << cfg, probe_resp, upload_resp, fleet_version, gate_ok, upload_info >>

\* lines 189-233: the upload and the report of its result
UploadPackage ==
    /\ pc = "upload"
    /\ IF LabelsConflict(cfg.labels_include_any, cfg.labels_exclude_any)
       THEN /\ Fail(ProcessorError(
                    "Only one of labels_include_any or labels_exclude_any may be specified.",
                    None, None))
            /\ UNCHANGED << calls, upload_resp, upload_info, env >>
       ELSE \E resp \in UploadResponses :
            LET r == fleet_upload_package(resp)
                out == ReportUpload(r.val, env)
            IN  /\ calls' = Append(calls, POST_PACKAGE)
                /\ upload_resp' = resp
                /\ IF r.exc.type # "none"
                   THEN /\ Fail(r.exc)
                        /\ UNCHANGED << upload_info, env >>
                   ELSE /\ upload_info' = r.val
                        /\ env' = out.env
                        /\ IF out.exc.type # "none"
                           THEN Fail(out.exc)
                           ELSE pc' = "done" /\ err' = err
    /\ UNCHANGED << cfg, probe_resp, titles_resp, fleet_version, gate_ok,
                    existing_package, matching_title, hashed >>

Next == ValidateInputs \/ ProbeVersion \/ CheckExisting \/ UploadPackage

Spec == Init /\ [][Next]_vars

-----------------------------------------------------------------------------
(* _is_fleet_minimum_supported on its own: every version string made of up
   to MaxParts dot-separated components and an optional suffix *)

MaxParts == 4

GateComponents ==
    { << "0" >>, << "4" >>, << "5" >>, << "7", "3" >>, << "7", "4" >>, << "7", "5" >>,
      << "x" >>, << >> }

GateSuffixes == { << >>, << "-", "d" >>, << "-", "5", ".", "0" >> }

RECURSIVE Join(_, _)
Join(parts, sep) ==
    IF Len(parts) = 1 THEN parts[1]
    ELSE parts[1] \o << sep >> \o Join(Tail(parts), sep)

VersionStrings ==
    { Join(parts, ".") \o suffix :
        parts \in UNION { [1..n -> GateComponents] : n \in 1..MaxParts },
        suffix \in GateSuffixes }

DefaultConfig ==
    [ pkg_is_file |-> TRUE, software_title |-> << "A" >>, version |-> << "2" >>,
      labels_include_any |-> << >>, labels_exclude_any |-> << >>, pkg_bytes |-> "pkg-1" ]

InitGate ==
    /\ pc = "gate"
    /\ \E v \in VersionStrings : Idle(DefaultConfig, v, NoResponse)

\* lines 253-278 applied to fleet_version
GateCall ==
    /\ pc = "gate"
    /\ gate_ok' = is_fleet_minimum_supported(fleet_version)
    /\ pc' = "gate_ret"
    /\ UNCHANGED << cfg, calls, probe_resp, titles_resp, upload_resp, fleet_version,
                    existing_package, matching_title, upload_info, env, hashed, err >>

NextGate == GateCall

SpecGate == InitGate /\ [][NextGate]_vars

-----------------------------------------------------------------------------
(* _check_existing_package on its own: the choice of the matching title over
   every catalog of up to MaxTitles entries, and the version check over
   every matched title with up to MaxVersions version-history entries *)

MaxTitles == 3
MaxVersions == 2

MatchNames == { << "A" >>, << "a" >>, << "a", "B" >>, << "B" >>, << >> }
MatchTitles == { << "A" >>, << "A", "b" >> }

\* catalog entries that all list the declared version: one per name, and one
\* without a name
MatchEntries ==
    { JObj([name |-> JStr(n), versions |-> JList(<< V2 >>), hash_sha256 |-> HashC]) :
        n \in MatchNames }
    \cup { JObj([versions |-> JList(<< V2 >>), hash_sha256 |-> HashC]) }

SeqsUpTo(S, n) == UNION { [1..k -> S] : k \in 0..n }

InitMatch ==
    /\ pc = "lookup"
    /\ \E t \in MatchTitles, l \in SeqsUpTo(MatchEntries, MaxTitles) :
          Idle([DefaultConfig EXCEPT !.software_title = t], << >>,
               Response(200, TitlesBody(JList(l))))

\* version-history entries: bare strings, records, and other shapes
VersionEntries ==
    { V1, V2, JObj([version |-> V1]), JObj([version |-> V2]), JObj([id |-> JNum(3)]),
      None, JNum(2) }

CurrentPackages ==
    { EmptyObj, JObj([version |-> V1]), JObj([name |-> NameAB, version |-> V2]) }

\* matched titles: with or without a version history, a current package and
\* a title-level hash
VersionedTitles ==
    LET base == { [name |-> NameA] } \cup { [name |-> NameA, hash_sha256 |-> HashC] }
        With(S, key, vals) ==
            { [k \in DOMAIN f \cup {key} |-> IF k = key THEN x ELSE f[k]] : f \in S, x \in vals }
        hist == base \cup With(base, "versions",
                         { None } \cup { JList(l) : l \in SeqsUpTo(VersionEntries, MaxVersions) })
        pkgd == hist \cup With(hist, "software_package", { None } \cup CurrentPackages)
    IN  { JObj(f) : f \in pkgd }

InitVers ==
    /\ pc = "lookup"
    /\ \E t \in VersionedTitles :
          Idle(DefaultConfig, << >>, Response(200, TitlesBody(JList(<< t >>))))

\* lines 280-426 applied to the catalog response
LookupCall ==
    /\ pc = "lookup"
    /\ LET r == check_existing_package(titles_resp, software_title, version)
       IN  /\ existing_package' = r.val
           /\ matching_title' = r.matching_title
           /\ err' = IF r.exc = "none" THEN err ELSE Uncaught(r.exc)
    /\ pc' = "lookup_ret"
    /\ UNCHANGED << cfg, calls, probe_resp, titles_resp, upload_resp, fleet_version,
                    gate_ok, upload_info, env, hashed >>

NextLookup == LookupCall

SpecMatch == InitMatch /\ [][NextLookup]_vars

SpecVers == InitVers /\ [][NextLookup]_vars

-----------------------------------------------------------------------------
(* Properties of the minimum-version gate *)

Least(S) == CHOOSE m \in S : \A n \in S : m <= n

\* the characters of s before its first c
BeforeFirst(s, c) ==
    LET at == { i \in 1..Len(s) : s[i] = c }
    IN  IF at = {} THEN s ELSE SubSeq(s, 1, Least(at) - 1)

\* the positions of the dots of s, with the two ends
DotsOf(s) == { i \in 1..Len(s) : s[i] = "." } \cup { 0, Len(s) + 1 }

\* the number of dot-separated components of s, and the k-th of them
NumComponents(s) == Cardinality(DotsOf(s)) - 1
Component(s, k) ==
    LET from == CHOOSE i \in DotsOf(s) : Cardinality({ j \in DotsOf(s) : j < i }) = k - 1
        to   == CHOOSE i \in DotsOf(s) : Cardinality({ j \in DotsOf(s) : j < i }) = k
    IN  SubSeq(s, from + 1, to - 1)

\* (x, y, z) >= (4, 74, 0) in lexicographic order
AtLeastMinimum(x, y, z) ==
    \/ x > 4
    \/ x = 4 /\ y > 74
    \/ x = 4 /\ y = 74 /\ z >= 0

\* the triple the gate compares: missing patch is 0
GateDecision(base) ==
    AtLeastMinimum(IntVal(Component(base, 1)), IntVal(Component(base, 2)),
                   IF NumComponents(base) > 2 THEN IntVal(Component(base, 3)) ELSE 0)

\* C7 as stated: with the part after the first "-" discarded, a string with
\* a non-numeric component or fewer than two components passes, and a string
\* of two or three integers passes exactly when its triple is at least
\* (4, 74, 0).
C7_GateAsStated ==
    pc = "gate_ret" =>
        LET base == BeforeFirst(fleet_version, "-")
            n == NumComponents(base)
        IN  /\ (n < 2 \/ \E k \in 1..n : ~IntOk(Component(base, k))) => gate_ok
            /\ (n \in {2, 3} /\ \A k \in 1..n : IntOk(Component(base, k)))
                  => (gate_ok <=> GateDecision(base))

\* C7, amended: only the first three components are read. With the part
\* after the first "-" discarded, a string with fewer than two components or
\* a non-numeric component among its first three passes; any other string
\* passes exactly when the triple of its first three components (missing
\* patch taken as 0) is at least (4, 74, 0) in lexicographic order.
C7_GateFirstThree ==
    pc = "gate_ret" =>
        LET base == BeforeFirst(fleet_version, "-")
            n == NumComponents(base)
            read == IF n > 3 THEN 3 ELSE n
        IN  IF n < 2 \/ \E k \in 1..read : ~IntOk(Component(base, k))
            THEN gate_ok
            ELSE gate_ok <=> GateDecision(base)

\* a string with a suffix and a non-numeric fourth component is refused on
\* its first three components
C7_Witness ==
    /\ pc = "gate_ret"
    /\ fleet_version = << "4", ".", "7", "3", ".", "0", ".", "x", "-", "d" >>
    /\ ~gate_ok

-----------------------------------------------------------------------------
(* Properties of the existence check *)

\* the candidate titles of the catalog response, and the name of the i-th
CatalogTitles == titles_resp.body.j.v.software_titles.v
CandidateName(i) == Get(CatalogTitles[i], "name", EmptyStr)

\* C3 as stated: whenever some candidate's name equals the declared title
\* exactly, the matched title is a candidate whose name equals the declared
\* title exactly, wherever it stands in the list.
C3_ExactMatchWins ==
    pc = "lookup_ret" =>
        ((\E i \in 1..Len(CatalogTitles) : StrEq(CandidateName(i), software_title))
            => /\ matching_title # 0
               /\ StrEq(CandidateName(matching_title), software_title))

\* the version history of the matched title lists the declared version, as a
\* bare string or as a record's version field
InHistory(title) ==
    /\ "versions" \in DOMAIN title.v
    /\ title.v.versions.t = "list"
    /\ \E i \in 1..Len(title.v.versions.v) :
          LET e == title.v.versions.v[i]
          IN  \/ e.t = "str" /\ e.v = version
              \/ /\ e.t = "obj"
                 /\ "version" \in DOMAIN e.v
                 /\ e.v.version = JStr(version)

\* the current software package of the matched title has the declared version
IsCurrent(title) ==
    /\ "software_package" \in DOMAIN title.v
    /\ title.v.software_package.t = "obj"
    /\ "version" \in DOMAIN title.v.software_package.v
    /\ title.v.software_package.v.version = JStr(version)

\* C10: for a matched title the check reports 'exists' exactly when its
\* version history lists the declared version (bare string or record; other
\* shapes skipped) or, failing that, its software_package record has the
\* declared version; the hash reported is the title-level hash_sha256.
C10_VersionPresence ==
    pc = "lookup_ret" =>
        /\ err = NoError
        /\ matching_title = 1
        /\ Truthy(existing_package)
              <=> (InHistory(CatalogTitles[1]) \/ IsCurrent(CatalogTitles[1]))
        /\ Truthy(existing_package)
              => existing_package.v.hash_sha256 = Get(CatalogTitles[1], "hash_sha256", None)

\* an entry of another shape is skipped and the record after it is the hit
C10_Witness ==
    /\ pc = "lookup_ret"
    /\ "versions" \in DOMAIN CatalogTitles[1].v
    /\ CatalogTitles[1].v.versions = JList(<< None, JObj([version |-> V2]) >>)
    /\ Truthy(existing_package)
    /\ existing_package.v.hash_sha256 = HashC

-----------------------------------------------------------------------------
(* Properties of a run of main *)

\* C1: the requests are issued in the order version GET, catalog GET, upload
\* POST, each at most once; the catalog GET only after the gate has passed,
\* the POST only after the existence check has reported 'not found'.
C1_CallOrder ==
    /\ calls \in { << >>, << GET_VERSION >>, << GET_VERSION, GET_TITLES >>,
                   << GET_VERSION, GET_TITLES, POST_PACKAGE >> }
    /\ Len(calls) >= 2 => (probe_resp # NoResponse /\ gate_ok)
    /\ Len(calls) >= 3 =>
          (titles_resp # NoResponse /\ ~Truthy(existing_package) /\ gate_ok)

\* a run that issued all three requests and ended normally
C1_Witness == pc = "done" /\ Len(calls) = 3

\* C2 as stated: with both label lists non-empty no request is ever issued
\* and the run never ends normally.
C2_LabelsRejectedBeforeNetwork ==
    LabelsConflict(cfg.labels_include_any, cfg.labels_exclude_any)
        => (calls = << >> /\ pc # "done")

\* C4 as stated: a 200 answer to the upload whose body is empty or a JSON
\* object ends the run normally, the outputs taken from the nested
\* software_package record when present and null otherwise.
C4_Upload200EndsNormally ==
    (/\ upload_resp.k = "resp"
     /\ upload_resp.code = 200
     /\ \/ upload_resp.body.b = "empty"
        \/ upload_resp.body.b = "json" /\ upload_resp.body.j.t = "obj")
        => /\ pc = "done"
           /\ err = NoError
           /\ env.fleet_title_id # Unset
           /\ env.fleet_installer_id # Unset

\* the outcomes of the probe that carry no usable version
ProbeFailure(resp) ==
    \/ resp.k \in {"HTTPError", "URLError"}
    \/ /\ resp.k = "resp"
       /\ \/ resp.code # 200
          \/ resp.body.b # "json"
          \/ resp.body.j.t # "obj"
          \/ "version" \notin DOMAIN resp.body.j.v
          \/ resp.body.j.v.version.t # "str"
          \/ resp.body.j.v.version = EmptyStr

\* C5 as stated: after any failed probe the version is the minimum supported
\* version, the gate has passed and the run goes on to the existence check.
C5_ProbeNeverAborts ==
    ProbeFailure(probe_resp)
        => /\ fleet_version = FLEET_MINIMUM_VERSION
           /\ gate_ok
           /\ Len(calls) = 1 => pc = "check"

\* the catalog answers C6 lists: transport failures and malformed bodies
CheckFailure(resp) ==
    \/ resp.k \in {"HTTPError", "URLError"}
    \/ /\ resp.k = "resp"
       /\ resp.code = 200
       /\ \/ resp.body.b \in {"empty", "text"}
          \/ resp.body.b = "json" /\ resp.body.j.t # "obj"
          \/ /\ resp.body.b = "json"
             /\ resp.body.j.t = "obj"
             /\ "software_titles" \in DOMAIN resp.body.j.v
             /\ resp.body.j.v.software_titles.t = "list"
             /\ \E i \in 1..Len(resp.body.j.v.software_titles.v) :
                   LET title == resp.body.j.v.software_titles.v[i]
                   IN  \/ title.t # "obj"
                       \/ /\ "name" \in DOMAIN title.v
                          /\ title.v.name = None
                       \/ /\ "software_package" \in DOMAIN title.v
                          /\ title.v.software_package.t \notin {"obj", "null"}

\* C6 as stated: after any such answer the check has reported 'not found'
\* without raising and the run goes on to the upload.
C6_CheckNeverAborts ==
    CheckFailure(titles_resp)
        => /\ existing_package = None
           /\ Len(calls) = 2 => (pc = "upload" /\ err = NoError)

\* C8: a 409 answer to the upload ends the run normally with null title and
\* installer ids, the hash_sha256 output not written and the local file not
\* hashed.
C8_ConflictIsSuccess ==
    (upload_resp.k = "HTTPError" /\ upload_resp.code = 409)
        => /\ pc = "done"
           /\ err = NoError
           /\ env.fleet_title_id = None
           /\ env.fleet_installer_id = None
           /\ env.hash_sha256 = Unset
           /\ ~hashed

\* a run whose upload was answered 409
C8_Witness ==
    /\ upload_resp.k = "HTTPError"
    /\ upload_resp.code = 409
    /\ pc = "done"

-----------------------------------------------------------------------------
(* Properties of the title matching tiers *)

\* a is a run of consecutive characters of b
IsSubstring(a, b) ==
    \E k \in 0..Len(b) : \E m \in k..Len(b) : SubSeq(b, k + 1, m) = a

\* the candidates whose name equals the declared title, case ignored
NameMatches ==
    { i \in 1..Len(CatalogTitles) :
        /\ CandidateName(i).t = "str"
        /\ Lower(CandidateName(i).v) = Lower(software_title) }

\* the candidates whose lower-cased name contains, or is contained in, the
\* lower-cased declared title
FuzzyMatches ==
    { i \in 1..Len(CatalogTitles) :
        /\ CandidateName(i).t = "str"
        /\ \/ IsSubstring(Lower(software_title), Lower(CandidateName(i).v))
           \/ IsSubstring(Lower(CandidateName(i).v), Lower(software_title)) }

\* C12: when some candidate matches exactly or case-insensitively the
\* matched title is one of those; otherwise it is the first candidate in
\* list order whose lower-cased name contains or is contained in the
\* lower-cased declared title; with no such candidate, or an empty list, no
\* title is matched and the check reports 'not found'.
C12_FuzzyTier ==
    pc = "lookup_ret" =>
        /\ err = NoError
        /\ NameMatches # {} => matching_title \in NameMatches
        /\ (NameMatches = {} /\ FuzzyMatches # {}) => matching_title = Least(FuzzyMatches)
        /\ (NameMatches = {} /\ FuzzyMatches = {})
              => (matching_title = 0 /\ existing_package = None)

\* the fuzzy tier passing over a first candidate and taking the second, whose
\* name differs from the declared title
C12_Witness ==
    /\ pc = "lookup_ret"
    /\ NameMatches = {}
    /\ matching_title = 2
    /\ 1 \notin FuzzyMatches
    /\ CandidateName(2) # EmptyStr
    /\ Truthy(existing_package)

\* C13 as stated: for a non-empty declared title the matched title is never
\* a candidate whose name is missing or empty, so such a candidate never
\* makes the check report 'exists'.
C13_NamelessNeverMatched ==
    (pc = "lookup_ret" /\ software_title # << >> /\ matching_title # 0)
        => CandidateName(matching_title) # EmptyStr

=============================================================================
